---- MODULE Spec2Model ----
(***************************************************************************)
(* RC aircraft control-surface servo torque estimator                      *)
(* (src/servo_torque_estimator.py).                                        *)
(*                                                                         *)
(* The script is a straight-line interactive pipeline: two flight          *)
(* conditions are read, the dynamic pressure is derived, and for each of   *)
(* the three control surfaces four values are read and a hinge torque is   *)
(* computed; a report is printed at the end.                               *)
(*                                                                         *)
(* Numbers.  The program computes with Python floats.  The model computes  *)
(* with exact decimals of unbounded size: a value is a record              *)
(*     [neg |-> sign, digits |-> magnitude, scale |-> decimal places]      *)
(* whose magnitude is a little-endian sequence of decimal digits, so the   *)
(* value is (-1)^neg * digits * 10^(-scale).  Values are kept canonical    *)
(* (no leading zero digit, no trailing fractional zero, zero unsigned), so *)
(* that equality of records is equality of numbers.  Every operation of    *)
(* the program (+, *, / 2.0, ** 2, abs, comparison, rounding for display)  *)
(* is exact on these; binary rounding error (about 1e-16 relative) is the  *)
(* one thing the model leaves out, and the texts the model types never     *)
(* spell inf, nan or an exponent.                                          *)
(***************************************************************************)
EXTENDS Integers, Sequences, FiniteSets, TLC

\* ------------------------------------------------------------------------
\* Natural magnitudes: little-endian digit sequences, <<>> is zero.
\* ------------------------------------------------------------------------

RECURSIVE StripHigh(_)
StripHigh(d) ==
    IF d = <<>> THEN <<>>
    ELSE IF d[Len(d)] = 0 THEN StripHigh(SubSeq(d, 1, Len(d) - 1))
    ELSE d

RECURSIVE StripLow(_, _)
\* Drops trailing fractional zeros: <<digits, scale>> with the same value.
StripLow(d, s) ==
    IF d = <<>> THEN <<d, 0>>
    ELSE IF s > 0 /\ Head(d) = 0 THEN StripLow(Tail(d), s - 1)
    ELSE <<d, s>>

RECURSIVE NatAddC(_, _, _)
NatAddC(a, b, c) ==
    IF a = <<>> /\ b = <<>> THEN (IF c = 0 THEN <<>> ELSE <<c>>)
    ELSE LET x == IF a = <<>> THEN 0 ELSE Head(a)
             y == IF b = <<>> THEN 0 ELSE Head(b)
             s == x + y + c
         IN  <<s % 10>> \o NatAddC(IF a = <<>> THEN <<>> ELSE Tail(a),
                                   IF b = <<>> THEN <<>> ELSE Tail(b),
                                   s \div 10)

NatAdd(a, b) == NatAddC(a, b, 0)

RECURSIVE NatSubB(_, _, _)
\* a - b - borrow, for a >= b + borrow.
NatSubB(a, b, w) ==
    IF a = <<>> THEN <<>>
    ELSE LET y == IF b = <<>> THEN 0 ELSE Head(b)
             s == Head(a) - y - w
         IN  <<IF s < 0 THEN s + 10 ELSE s>>
             \o NatSubB(Tail(a), IF b = <<>> THEN <<>> ELSE Tail(b),
                        IF s < 0 THEN 1 ELSE 0)

NatSub(a, b) == StripHigh(NatSubB(a, b, 0))

RECURSIVE NatLessFrom(_, _, _)
\* a < b for magnitudes of the same length, compared from digit i down.
NatLessFrom(a, b, i) ==
    IF i = 0 THEN FALSE
    ELSE IF a[i] # b[i] THEN a[i] < b[i]
    ELSE NatLessFrom(a, b, i - 1)

NatLess(a, b) ==
    IF Len(a) # Len(b) THEN Len(a) < Len(b) ELSE NatLessFrom(a, b, Len(a))

RECURSIVE NatMulDigit(_, _, _)
NatMulDigit(a, m, c) ==
    IF a = <<>> THEN (IF c = 0 THEN <<>> ELSE <<c>>)
    ELSE LET s == Head(a) * m + c
         IN  <<s % 10>> \o NatMulDigit(Tail(a), m, s \div 10)

RECURSIVE NatMul(_, _)
NatMul(a, b) ==
    IF a = <<>> \/ b = <<>> THEN <<>>
    ELSE StripHigh(NatAdd(NatMulDigit(a, Head(b), 0),
                          <<0>> \o NatMul(a, Tail(b))))

RECURSIVE Zeros(_)
Zeros(k) == IF k = 0 THEN <<>> ELSE <<0>> \o Zeros(k - 1)

\* a * 10^k
NatShift(a, k) == IF a = <<>> THEN <<>> ELSE Zeros(k) \o a

RECURSIVE IntDigits(_)
IntDigits(n) == IF n = 0 THEN <<>> ELSE <<n % 10>> \o IntDigits(n \div 10)

\* ------------------------------------------------------------------------
\* Float values and the float operations the program uses.
\* ------------------------------------------------------------------------

\* The canonical record of (-1)^neg * d * 10^(-s).
Float(neg, d, s) ==
    LET c == StripLow(StripHigh(d), s)
    IN  [neg |-> neg /\ c[1] # <<>>, digits |-> c[1], scale |-> c[2]]

\* A float literal of the source: n * 10^(-s), as in 1.225 = Lit(1225, 3).
Lit(n, s) == Float(n < 0, IntDigits(IF n < 0 THEN -n ELSE n), s)

Max(i, j) == IF i > j THEN i ELSE j

\* x * y
FloatMul(x, y) ==
    Float(x.neg # y.neg, NatMul(x.digits, y.digits), x.scale + y.scale)

\* x + y
FloatAdd(x, y) ==
    LET s == Max(x.scale, y.scale)
        a == NatShift(x.digits, s - x.scale)
        b == NatShift(y.digits, s - y.scale)
    IN  IF x.neg = y.neg THEN Float(x.neg, NatAdd(a, b), s)
        ELSE IF NatLess(a, b) THEN Float(y.neg, NatSub(b, a), s)
        ELSE Float(x.neg, NatSub(a, b), s)

\* abs(x)
FloatAbs(x) == [x EXCEPT !.neg = FALSE]

\* -x
FloatNeg(x) == Float(~x.neg, x.digits, x.scale)

\* x / 2.0
FloatHalve(x) == Float(x.neg, NatMulDigit(x.digits, 5, 0), x.scale + 1)

\* The number a format specification of n decimal places displays for x
\* (f"{x:.nf}"): x rounded to n places, ties to even.
FloatFormat(x, n) ==
    IF x.scale <= n THEN x
    ELSE LET k   == x.scale - n
             cut == SubSeq(x.digits, 1, IF k < Len(x.digits) THEN k ELSE Len(x.digits))
             kept == IF k < Len(x.digits)
                     THEN SubSeq(x.digits, k + 1, Len(x.digits)) ELSE <<>>
             \* cut compared with half a unit of the last kept place
             half == NatShift(<<5>>, k - 1)
             rem  == StripHigh(cut)
             odd  == kept # <<>> /\ Head(kept) % 2 = 1
             up   == NatLess(half, rem) \/ (rem = half /\ odd)
         IN  Float(x.neg, IF up THEN NatAdd(kept, <<1>>) ELSE kept, n)

\* ------------------------------------------------------------------------
\* Text typed at a prompt, and float(text).
\* ------------------------------------------------------------------------

DigitChars == <<"0", "1", "2", "3", "4", "5", "6", "7", "8", "9">>

IsDigit(c) == \E i \in 1..Len(DigitChars) : DigitChars[i] = c

DigitValue(c) == (CHOOSE i \in 1..Len(DigitChars) : DigitChars[i] = c) - 1

RECURSIVE StripLeft(_)
StripLeft(t) == IF t # <<>> /\ Head(t) = " " THEN StripLeft(Tail(t)) ELSE t

RECURSIVE StripRight(_)
StripRight(t) ==
    IF t # <<>> /\ t[Len(t)] = " " THEN StripRight(SubSeq(t, 1, Len(t) - 1)) ELSE t

RECURSIVE DigitsOf(_)
\* The magnitude spelled by a sequence of digit characters.
DigitsOf(t) == IF t = <<>> THEN <<>> ELSE DigitsOf(Tail(t)) \o <<DigitValue(Head(t))>>

\* float(text): surrounding blanks are ignored; an optional sign, then
\* digits with at most one point and at least one digit.  Anything else is
\* a ValueError (ok = FALSE).
ParseFloat(text) ==
    LET t      == StripRight(StripLeft(text))
        signed == t # <<>> /\ Head(t) \in {"+", "-"}
        body   == IF signed THEN Tail(t) ELSE t
        points == {i \in 1..Len(body) : body[i] = "."}
        p      == IF points = {} THEN Len(body) + 1 ELSE CHOOSE i \in points : TRUE
        whole  == SubSeq(body, 1, p - 1)
        frac   == SubSeq(body, p + 1, Len(body))
        ok     == /\ Cardinality(points) <= 1
                  /\ \A i \in 1..Len(body) : i \in points \/ IsDigit(body[i])
                  /\ Len(whole) + Len(frac) >= 1
    IN  IF ok
        THEN [ok |-> TRUE,
              value |-> Float(signed /\ Head(t) = "-", DigitsOf(whole \o frac), Len(frac))]
        ELSE [ok |-> FALSE]

\* ------------------------------------------------------------------------
\* The program's constants and helper functions.
\* ------------------------------------------------------------------------

NM_TO_KGCM == Lit(101972, 4)

\* A local that is not bound (yet, or any more).
Unbound == [unbound |-> TRUE]

\* What one call of input() can do: hand over the line typed, or raise
\* EOFError because the input ended before a line was supplied.
Line(text) == [kind |-> "line", text |-> text]
EndOfInput == [kind |-> "eof"]

\* stdout: what input() shows as its prompt, and the warning of line 33.
PromptEvent(prompt_text, default_value) ==
    [ev |-> "prompt", text |-> prompt_text, default |-> default_value]
WarningEvent(default_value) ==
    [ev |-> "invalid_input", default |-> default_value]

\* Variants of get_user_input with one slip each, to test the properties
\* below against: the empty line is not checked for (float("") is a
\* ValueError), the warning is left out, the fallback is float() = 0.0.
get_user_input_unchecked_empty(prompt_text, default_value, outcome) ==
    LET prompt == PromptEvent(prompt_text, default_value)
    IN  IF outcome.kind = "eof"
        THEN [raised |-> "EOFError", value |-> Unbound, out |-> <<prompt>>]
        ELSE IF ParseFloat(outcome.text).ok
        THEN [raised |-> "", value |-> ParseFloat(outcome.text).value,
              out |-> <<prompt>>]
        ELSE [raised |-> "", value |-> default_value,
              out |-> <<prompt, WarningEvent(default_value)>>]

get_user_input_silent(prompt_text, default_value, outcome) ==
    LET prompt == PromptEvent(prompt_text, default_value)
    IN  IF outcome.kind = "eof"
        THEN [raised |-> "EOFError", value |-> Unbound, out |-> <<prompt>>]
        ELSE IF outcome.text # <<>> /\ ParseFloat(outcome.text).ok
        THEN [raised |-> "", value |-> ParseFloat(outcome.text).value,
              out |-> <<prompt>>]
        ELSE [raised |-> "", value |-> default_value, out |-> <<prompt>>]

get_user_input_zero_fallback(prompt_text, default_value, outcome) ==
    LET prompt == PromptEvent(prompt_text, default_value)
    IN  IF outcome.kind = "eof"
        THEN [raised |-> "EOFError", value |-> Unbound, out |-> <<prompt>>]
        ELSE IF outcome.text = <<>>
        THEN [raised |-> "", value |-> default_value, out |-> <<prompt>>]
        ELSE IF ParseFloat(outcome.text).ok
        THEN [raised |-> "", value |-> ParseFloat(outcome.text).value,
              out |-> <<prompt>>]
        ELSE [raised |-> "", value |-> Lit(0, 0),
              out |-> <<prompt, WarningEvent(default_value)>>]

\* get_user_input(prompt_text, default_value) with input_type = float, for
\* one outcome of its input() call.  default_value is a float already, so
\* float(default_value) is default_value.  The result is the exception that
\* leaves the function ("" when it returns), the value returned and what it
\* printed.
get_user_input(prompt_text, default_value, outcome) ==
    LET prompt == PromptEvent(prompt_text, default_value)
    IN  IF outcome.kind = "eof"
        THEN [raised |-> "EOFError", value |-> Unbound, out |-> <<prompt>>]
        ELSE IF outcome.text = <<>>
        THEN [raised |-> "", value |-> default_value, out |-> <<prompt>>]
        ELSE IF ParseFloat(outcome.text).ok
        THEN [raised |-> "", value |-> ParseFloat(outcome.text).value,
              out |-> <<prompt>>]
        ELSE [raised |-> "", value |-> default_value,
              out |-> <<prompt, WarningEvent(default_value)>>]

\* Variant: root_chord + tip_chord * span / 2.0 (the parentheses lost).
calculate_trapezoid_area_unparenthesised(root_chord, tip_chord, span) ==
    FloatAdd(root_chord, FloatHalve(FloatMul(tip_chord, span)))

calculate_trapezoid_area(root_chord, tip_chord, span) ==
    FloatHalve(FloatMul(FloatAdd(root_chord, tip_chord), span))

calculate_mean_aerodynamic_chord(root_chord, tip_chord) ==
    FloatHalve(FloatAdd(root_chord, tip_chord))

\* Variant: the abs() lost.
calculate_hinge_torque_signed(dynamic_pressure, surface_area, mean_chord, hinge_coeff) ==
    LET torque_nm == FloatMul(FloatMul(FloatMul(dynamic_pressure, surface_area),
                                       mean_chord),
                              hinge_coeff)
        torque_kg_cm == FloatMul(torque_nm, NM_TO_KGCM)
    IN  <<torque_nm, torque_kg_cm>>

calculate_hinge_torque(dynamic_pressure, surface_area, mean_chord, hinge_coeff) ==
    LET torque_nm == FloatMul(FloatMul(FloatMul(dynamic_pressure, surface_area),
                                       mean_chord),
                              FloatAbs(hinge_coeff))
        torque_kg_cm == FloatMul(torque_nm, NM_TO_KGCM)
    IN  <<torque_nm, torque_kg_cm>>

\* The dict of lines 93-97; a dict iterates in insertion order, so it is
\* the sequence of its items.
surface_defaults ==
    << [name |-> "Aileron",
        defaults |-> [ch |-> Lit(-15, 2), span |-> Lit(924, 3),
                      root_chord |-> Lit(110, 3), tip_chord |-> Lit(50, 3),
                      note |-> "(Single Aileron)"]],
       [name |-> "Elevator",
        defaults |-> [ch |-> Lit(-10, 2), span |-> Lit(318, 3),
                      root_chord |-> Lit(225, 3), tip_chord |-> Lit(225, 3),
                      note |-> "(One Half of the Elevator)"]],
       [name |-> "Rudder",
        defaults |-> [ch |-> Lit(-10, 2), span |-> Lit(308, 3),
                      root_chord |-> Lit(200, 3), tip_chord |-> Lit(150, 3),
                      note |-> ""]] >>

\* ------------------------------------------------------------------------
\* One execution of run_servo_torque_estimation, as a record:
\*   pc                the statement about to run
\*   air_density, velocity, dynamic_pressure   locals of the main function
\*   next              position of the for loop in surface_defaults
\*   frame             locals of the process_surface call in progress
\*   results           the results list
\*   stdout            everything printed, in order
\*   calls             every get_user_input call made: its arguments, the
\*                     outcome of its input() and what it returned
\*   q_passed          the dynamic_pressure argument of every
\*                     process_surface call made
\* (calls and q_passed are history; the program never reads them.)
\* ------------------------------------------------------------------------

Started ==
    [pc |-> "air_density", air_density |-> Unbound, velocity |-> Unbound,
     dynamic_pressure |-> Unbound, next |-> 1, frame |-> Unbound,
     results |-> <<>>, stdout |-> <<>>, calls |-> <<>>, q_passed |-> <<>>]

ReadPcs == {"air_density", "velocity", "hinge_coeff", "span", "root_chord", "tip_chord"}

\* s after a get_user_input call that returned r: what it printed is on
\* stdout and the call is recorded.
Called(s, prompt_text, default_value, outcome, r) ==
    [s EXCEPT !.stdout = @ \o r.out,
              !.calls = Append(@, [prompt_text |-> prompt_text,
                                   default_value |-> default_value,
                                   outcome |-> outcome, ret |-> r])]

\* An exception leaving get_user_input is caught nowhere: it unwinds
\* process_surface and the main function, and the run ends.
Propagate(s) == [s EXCEPT !.pc = "raised", !.frame = Unbound]

\* line 85 (with the banner of lines 80-84 before it)
read_air_density(s, outcome) ==
    LET prompt_text == <<"Air density (rho) in kg/m^3">>
        r == get_user_input(prompt_text, Lit(1225, 3), outcome)
        t == Called([s EXCEPT !.stdout = @ \o <<[ev |-> "banner"]>>],
                    prompt_text, Lit(1225, 3), outcome, r)
    IN  IF r.raised # "" THEN Propagate(t)
        ELSE [t EXCEPT !.air_density = r.value, !.pc = "velocity"]

\* line 86
read_velocity(s, outcome) ==
    LET prompt_text == <<"Aircraft velocity (V) in m/s">>
        r == get_user_input(prompt_text, Lit(180, 1), outcome)
        t == Called(s, prompt_text, Lit(180, 1), outcome, r)
    IN  IF r.raised # "" THEN Propagate(t)
        ELSE [t EXCEPT !.velocity = r.value, !.pc = "dynamic_pressure"]

\* Variant: the factor 0.5 lost.
derive_dynamic_pressure_no_half(s) ==
    LET q == FloatMul(s.air_density, FloatMul(s.velocity, s.velocity))
    IN  [s EXCEPT !.dynamic_pressure = q,
                  !.stdout = @ \o <<[ev |-> "dynamic_pressure",
                                     shown |-> FloatFormat(q, 2)]>>,
                  !.pc = "for"]

\* lines 88-89
derive_dynamic_pressure(s) ==
    LET q == FloatMul(FloatMul(Lit(5, 1), s.air_density),
                      FloatMul(s.velocity, s.velocity))
    IN  [s EXCEPT !.dynamic_pressure = q,
                  !.stdout = @ \o <<[ev |-> "dynamic_pressure",
                                     shown |-> FloatFormat(q, 2)]>>,
                  !.pc = "for"]

\* lines 100-101 and 57: the loop takes the next item of surface_defaults
\* and calls process_surface(name, defaults, dynamic_pressure).
enter_process_surface(s) ==
    LET item == surface_defaults[s.next]
    IN  [s EXCEPT !.frame = [name |-> item.name, defaults |-> item.defaults,
                             dynamic_pressure |-> s.dynamic_pressure,
                             hinge_coeff |-> Unbound, span |-> Unbound,
                             root_chord |-> Unbound, tip_chord |-> Unbound,
                             area |-> Unbound, mean_chord |-> Unbound,
                             torque_nm |-> Unbound, torque_kgcm |-> Unbound],
                  !.q_passed = Append(@, s.dynamic_pressure),
                  !.stdout = @ \o <<[ev |-> "parameters", name |-> item.name,
                                     note |-> item.defaults.note]>>,
                  !.pc = "hinge_coeff"]

\* line 59
read_hinge_coeff(s, outcome) ==
    LET prompt_text == <<s.frame.name, "Hinge Moment Coefficient (Ch)">>
        r == get_user_input(prompt_text, s.frame.defaults.ch, outcome)
        t == Called(s, prompt_text, s.frame.defaults.ch, outcome, r)
    IN  IF r.raised # "" THEN Propagate(t)
        ELSE [t EXCEPT !.frame.hinge_coeff = r.value, !.pc = "span"]

\* line 60
read_span(s, outcome) ==
    LET prompt_text == <<s.frame.name, "span in meters">>
        r == get_user_input(prompt_text, s.frame.defaults.span, outcome)
        t == Called(s, prompt_text, s.frame.defaults.span, outcome, r)
    IN  IF r.raised # "" THEN Propagate(t)
        ELSE [t EXCEPT !.frame.span = r.value, !.pc = "root_chord"]

\* line 61
read_root_chord(s, outcome) ==
    LET prompt_text == <<s.frame.name, "root chord in meters">>
        r == get_user_input(prompt_text, s.frame.defaults.root_chord, outcome)
        t == Called(s, prompt_text, s.frame.defaults.root_chord, outcome, r)
    IN  IF r.raised # "" THEN Propagate(t)
        ELSE [t EXCEPT !.frame.root_chord = r.value, !.pc = "tip_chord"]

\* line 62
read_tip_chord(s, outcome) ==
    LET prompt_text == <<s.frame.name, "tip chord in meters">>
        r == get_user_input(prompt_text, s.frame.defaults.tip_chord, outcome)
        t == Called(s, prompt_text, s.frame.defaults.tip_chord, outcome, r)
    IN  IF r.raised # "" THEN Propagate(t)
        ELSE [t EXCEPT !.frame.tip_chord = r.value, !.pc = "compute"]

\* lines 64-69
compute_torque(s) ==
    LET f          == s.frame
        area       == calculate_trapezoid_area(f.root_chord, f.tip_chord, f.span)
        mean_chord == calculate_mean_aerodynamic_chord(f.root_chord, f.tip_chord)
        torque     == calculate_hinge_torque(f.dynamic_pressure, area, mean_chord,
                                             f.hinge_coeff)
    IN  [s EXCEPT !.frame.area = area, !.frame.mean_chord = mean_chord,
                  !.frame.torque_nm = torque[1], !.frame.torque_kgcm = torque[2],
                  !.pc = "return"]

\* Variant: state shared between surfaces, the torque of a surface is added
\* to the dynamic pressure the next one is given.
return_surface_leaky(s) ==
    [s EXCEPT !.results = Append(@, [name |-> s.frame.name,
                                     ch |-> s.frame.hinge_coeff,
                                     torque_nm |-> s.frame.torque_nm,
                                     torque_kgcm |-> s.frame.torque_kgcm]),
              !.dynamic_pressure = FloatAdd(@, s.frame.torque_nm),
              !.frame = Unbound,
              !.next = @ + 1,
              !.pc = "for"]

\* lines 72 and 101-102: process_surface returns its dict, the loop appends
\* it and moves on.
return_surface(s) ==
    [s EXCEPT !.results = Append(@, [name |-> s.frame.name,
                                     ch |-> s.frame.hinge_coeff,
                                     torque_nm |-> s.frame.torque_nm,
                                     torque_kgcm |-> s.frame.torque_kgcm]),
              !.frame = Unbound,
              !.next = @ + 1,
              !.pc = "for"]

\* Variant: the results listed last first.
print_report_reversed(s) ==
    [s EXCEPT !.stdout = @ \o <<[ev |-> "report",
                                 lines |-> [i \in 1..Len(s.results) |->
                                     LET res == s.results[Len(s.results) + 1 - i]
                                     IN  [name |-> res.name,
                                          ch |-> res.ch,
                                          nm |-> FloatFormat(res.torque_nm, 4),
                                          kgcm |-> FloatFormat(res.torque_kgcm, 2)]]]>>,
              !.pc = "done"]

\* lines 105-111
print_report(s) ==
    [s EXCEPT !.stdout = @ \o <<[ev |-> "report",
                                 lines |-> [i \in 1..Len(s.results) |->
                                     [name |-> s.results[i].name,
                                      ch |-> s.results[i].ch,
                                      nm |-> FloatFormat(s.results[i].torque_nm, 4),
                                      kgcm |-> FloatFormat(s.results[i].torque_kgcm, 2)]]]>>,
              !.pc = "done"]

\* The statement at s.pc, run on s; a read is given the outcome of its
\* input().
Step(s, outcome) ==
    CASE s.pc = "air_density"      -> read_air_density(s, outcome)
      [] s.pc = "velocity"         -> read_velocity(s, outcome)
      [] s.pc = "dynamic_pressure" -> derive_dynamic_pressure(s)
      [] s.pc = "for"              -> IF s.next <= Len(surface_defaults)
                                      THEN enter_process_surface(s)
                                      ELSE print_report(s)
      [] s.pc = "hinge_coeff"      -> read_hinge_coeff(s, outcome)
      [] s.pc = "span"             -> read_span(s, outcome)
      [] s.pc = "root_chord"       -> read_root_chord(s, outcome)
      [] s.pc = "tip_chord"        -> read_tip_chord(s, outcome)
      [] s.pc = "compute"          -> compute_torque(s)
      [] s.pc = "return"           -> return_surface(s)

\* ------------------------------------------------------------------------
\* The environment: what is typed.
\* ------------------------------------------------------------------------

\* At most MaxTyped prompts of a run are answered with a non-empty line.
MaxTyped == 2

\* The lines typed: nothing, text that is no number, numbers (positive,
\* negative, zero with blanks around it).
AnswerTexts ==
    { <<>>,
      <<"x">>,
      <<"0", ".", "2">>,
      <<"-", "0", ".", "2">>,
      <<" ", "0", " ">> }

Typed(s) == Cardinality({i \in 1..Len(s.calls) :
                            /\ s.calls[i].outcome.kind = "line"
                            /\ s.calls[i].outcome.text # <<>>})

Outcomes(s) ==
    {EndOfInput} \cup
    {Line(t) : t \in {a \in AnswerTexts : a = <<>> \/ Typed(s) < MaxTyped}}

\* The text with its sign changed.
NegateText(text) ==
    LET t == StripLeft(text)
    IN  IF t # <<>> /\ Head(t) = "-" THEN Tail(t)
        ELSE IF t # <<>> /\ Head(t) = "+" THEN <<"-">> \o Tail(t)
        ELSE <<"-">> \o t

\* ------------------------------------------------------------------------
\* State.  run is the execution under study.  twin is a second execution of
\* the same program, used only by the two-run specifications: it is given,
\* prompt by prompt, what run is given, changed as mode says for the
\* surface focus.
\*   mode = "single"  no twin
\*   mode = "sign"    twin types the Ch of surface focus with the other sign
\*   mode = "others"  twin types what run types for the flight conditions
\*                    and for surface focus, and nothing (an empty line) at
\*                    the prompts of the other two surfaces
\* ------------------------------------------------------------------------

VARIABLES run, twin, mode, focus

vars == <<run, twin, mode, focus>>

Init ==
    /\ run = Started
    /\ twin = Unbound
    /\ mode = "single"
    /\ focus = 0

ReadAirDensity ==
    /\ run.pc = "air_density"
    /\ \E o \in Outcomes(run) : run' = read_air_density(run, o)
    /\ UNCHANGED <<twin, mode, focus>>

ReadVelocity ==
    /\ run.pc = "velocity"
    /\ \E o \in Outcomes(run) : run' = read_velocity(run, o)
    /\ UNCHANGED <<twin, mode, focus>>

DeriveDynamicPressure ==
    /\ run.pc = "dynamic_pressure"
    /\ run' = derive_dynamic_pressure(run)
    /\ UNCHANGED <<twin, mode, focus>>

EnterProcessSurface ==
    /\ run.pc = "for"
    /\ run.next <= Len(surface_defaults)
    /\ run' = enter_process_surface(run)
    /\ UNCHANGED <<twin, mode, focus>>

ReadHingeCoeff ==
    /\ run.pc = "hinge_coeff"
    /\ \E o \in Outcomes(run) : run' = read_hinge_coeff(run, o)
    /\ UNCHANGED <<twin, mode, focus>>

ReadSpan ==
    /\ run.pc = "span"
    /\ \E o \in Outcomes(run) : run' = read_span(run, o)
    /\ UNCHANGED <<twin, mode, focus>>

ReadRootChord ==
    /\ run.pc = "root_chord"
    /\ \E o \in Outcomes(run) : run' = read_root_chord(run, o)
    /\ UNCHANGED <<twin, mode, focus>>

ReadTipChord ==
    /\ run.pc = "tip_chord"
    /\ \E o \in Outcomes(run) : run' = read_tip_chord(run, o)
    /\ UNCHANGED <<twin, mode, focus>>

ComputeTorque ==
    /\ run.pc = "compute"
    /\ run' = compute_torque(run)
    /\ UNCHANGED <<twin, mode, focus>>

ReturnSurface ==
    /\ run.pc = "return"
    /\ run' = return_surface(run)
    /\ UNCHANGED <<twin, mode, focus>>

PrintReport ==
    /\ run.pc = "for"
    /\ run.next > Len(surface_defaults)
    /\ run' = print_report(run)
    /\ UNCHANGED <<twin, mode, focus>>

Next ==
    \/ ReadAirDensity
    \/ ReadVelocity
    \/ DeriveDynamicPressure
    \/ EnterProcessSurface
    \/ ReadHingeCoeff
    \/ ReadSpan
    \/ ReadRootChord
    \/ ReadTipChord
    \/ ComputeTorque
    \/ ReturnSurface
    \/ PrintReport

Spec == Init /\ [][Next]_vars

\* --- two executions side by side ---

\* What twin is given when run is given outcome o.
TwinOutcome(o) ==
    LET at_focus == run.frame # Unbound /\ run.next = focus
    IN  IF o.kind # "line" THEN o
        ELSE IF mode = "sign"
        THEN IF at_focus /\ run.pc = "hinge_coeff" /\ ParseFloat(o.text).ok
             THEN Line(NegateText(o.text)) ELSE o
        ELSE IF at_focus \/ run.frame = Unbound THEN o ELSE Line(<<>>)

\* Both executions read: they are at the same prompt.
BothRead ==
    /\ run.pc \in ReadPcs
    /\ \E o \in Outcomes(run) :
          /\ run' = Step(run, o)
          /\ twin' = Step(twin, TwinOutcome(o))
    /\ UNCHANGED <<mode, focus>>

\* Both executions run a statement that reads nothing.
BothCompute ==
    /\ run.pc \in {"dynamic_pressure", "for", "compute", "return"}
    /\ run' = Step(run, EndOfInput)
    /\ twin' = Step(twin, EndOfInput)
    /\ UNCHANGED <<mode, focus>>

NextTwo == BothRead \/ BothCompute

InitSign ==
    /\ run = Started
    /\ twin = Started
    /\ mode = "sign"
    /\ focus \in 1..Len(surface_defaults)

SpecSign == InitSign /\ [][NextTwo]_vars

InitOthers ==
    /\ run = Started
    /\ twin = Started
    /\ mode = "others"
    /\ focus \in 1..Len(surface_defaults)

SpecOthers == InitOthers /\ [][NextTwo]_vars

\* ------------------------------------------------------------------------
\* What the specification documents, for stating the properties.
\* ------------------------------------------------------------------------

\* The 14 prompts in the documented order, each with its documented default.
Documented ==
    << [prompt |-> <<"Air density (rho) in kg/m^3">>,             default |-> Lit(1225, 3)],
       [prompt |-> <<"Aircraft velocity (V) in m/s">>,            default |-> Lit(180, 1)],
       [prompt |-> <<"Aileron", "Hinge Moment Coefficient (Ch)">>,  default |-> Lit(-15, 2)],
       [prompt |-> <<"Aileron", "span in meters">>,                 default |-> Lit(924, 3)],
       [prompt |-> <<"Aileron", "root chord in meters">>,           default |-> Lit(110, 3)],
       [prompt |-> <<"Aileron", "tip chord in meters">>,            default |-> Lit(50, 3)],
       [prompt |-> <<"Elevator", "Hinge Moment Coefficient (Ch)">>, default |-> Lit(-10, 2)],
       [prompt |-> <<"Elevator", "span in meters">>,                default |-> Lit(318, 3)],
       [prompt |-> <<"Elevator", "root chord in meters">>,          default |-> Lit(225, 3)],
       [prompt |-> <<"Elevator", "tip chord in meters">>,           default |-> Lit(225, 3)],
       [prompt |-> <<"Rudder", "Hinge Moment Coefficient (Ch)">>,   default |-> Lit(-10, 2)],
       [prompt |-> <<"Rudder", "span in meters">>,                  default |-> Lit(308, 3)],
       [prompt |-> <<"Rudder", "root chord in meters">>,            default |-> Lit(200, 3)],
       [prompt |-> <<"Rudder", "tip chord in meters">>,             default |-> Lit(150, 3)] >>

SurfaceOrder == <<"Aileron", "Elevator", "Rudder">>

IsFloat(v) == DOMAIN v = {"neg", "digits", "scale"}
Positive(x) == ~x.neg /\ x.digits # <<>>
NonNegative(x) == ~x.neg

IsEmptyAnswer(c) == c.outcome.kind = "line" /\ c.outcome.text = <<>>
IsTypedAnswer(c) == c.outcome.kind = "line" /\ c.outcome.text # <<>>
IsUnparseable(c) == IsTypedAnswer(c) /\ ~ParseFloat(c.outcome.text).ok
IsParseable(c) == IsTypedAnswer(c) /\ ParseFloat(c.outcome.text).ok

Warnings(out) == {i \in 1..Len(out) : out[i].ev = "invalid_input"}
PromptsShown(out) == {i \in 1..Len(out) : out[i].ev = "prompt"}

\* The get_user_input calls made for the i-th surface processed: the call
\* of its k-th value (1 Ch, 2 span, 3 root chord, 4 tip chord).
SurfaceCall(s, i, k) == s.calls[2 + 4 * (i - 1) + k]

AllAnswersEmpty(s) == \A i \in 1..Len(s.calls) : IsEmptyAnswer(s.calls[i])

\* ------------------------------------------------------------------------
\* C1.  get_user_input never raises to its caller: whatever its input()
\* does (empty line, parseable text, unparseable text, or the input ending
\* before a line is supplied), it returns a float, so the run always
\* reaches the final report and never ends on an exception.
\* Stated as claimed; the end of input refutes it.
\* ------------------------------------------------------------------------
C1_NeverRaises ==
    /\ \A i \in 1..Len(run.calls) :
          /\ run.calls[i].ret.raised = ""
          /\ IsFloat(run.calls[i].ret.value)
    /\ run.pc # "raised"

\* ------------------------------------------------------------------------
\* C2.  At each of the 14 prompts, an empty answer makes get_user_input
\* return exactly the documented default of that prompt's field, and it
\* prints no warning.
\* ------------------------------------------------------------------------
C2_EmptyGivesDefault ==
    \A i \in 1..Len(run.calls) :
        LET c == run.calls[i]
        IN  /\ i <= Len(Documented)
            /\ c.prompt_text = Documented[i].prompt
            /\ IsEmptyAnswer(c) =>
                  /\ c.ret.raised = ""
                  /\ c.ret.value = Documented[i].default
                  /\ Warnings(c.ret.out) = {}

C2_Witness ==
    /\ run.pc = "done"
    /\ Len(run.calls) = Len(Documented)
    /\ AllAnswersEmpty(run)
    /\ Warnings(run.stdout) = {}

\* ------------------------------------------------------------------------
\* C3.  At any prompt, an answer that cannot be parsed as a float makes
\* get_user_input return the documented default of that field and print
\* exactly one warning, which names that default; a warning is printed in
\* no other case (an empty or a parseable answer prints none).
\* ------------------------------------------------------------------------
C3_UnparseableWarnsOnce ==
    /\ \A i \in 1..Len(run.calls) :
          LET c == run.calls[i]
          IN  IF IsUnparseable(c)
              THEN /\ c.ret.raised = ""
                   /\ c.ret.value = Documented[i].default
                   /\ Cardinality(Warnings(c.ret.out)) = 1
                   /\ \A w \in Warnings(c.ret.out) :
                         c.ret.out[w].default = Documented[i].default
              ELSE Warnings(c.ret.out) = {}
    /\ Cardinality(Warnings(run.stdout))
         = Cardinality({i \in 1..Len(run.calls) : IsUnparseable(run.calls[i])})

C3_Witness ==
    /\ run.pc = "done"
    /\ \E i, j \in 1..Len(run.calls) :
          /\ IsUnparseable(run.calls[i])
          /\ IsParseable(run.calls[j])
    /\ Cardinality(Warnings(run.stdout)) = 1

\* ------------------------------------------------------------------------
\* C4.  Every SurfaceResult satisfies torque_nm = q * area * mean_chord *
\* |Ch| and torque_kgcm = torque_nm * 10.1972, where q is the run's dynamic
\* pressure, area = (root_chord + tip_chord) * span / 2 and mean_chord =
\* (root_chord + tip_chord) / 2 come from the four values acquired (entered
\* or defaulted) for that same surface.
\* ------------------------------------------------------------------------
C4_TorqueFormula ==
    \A i \in 1..Len(run.results) :
        LET ch   == SurfaceCall(run, i, 1).ret.value
            span == SurfaceCall(run, i, 2).ret.value
            root == SurfaceCall(run, i, 3).ret.value
            tip  == SurfaceCall(run, i, 4).ret.value
            area == FloatHalve(FloatMul(FloatAdd(root, tip), span))
            mean == FloatHalve(FloatAdd(root, tip))
            nm   == FloatMul(FloatMul(FloatMul(run.dynamic_pressure, area), mean),
                             FloatAbs(ch))
        IN  /\ run.results[i].torque_nm = nm
            /\ run.results[i].torque_kgcm = FloatMul(nm, Lit(101972, 4))

C4_Witness ==
    /\ Len(run.results) = 3
    /\ \E i \in 1..3 :
          /\ IsParseable(SurfaceCall(run, i, 2))
          /\ IsParseable(SurfaceCall(run, i, 3))
          /\ Positive(run.results[i].torque_nm)

\* ------------------------------------------------------------------------
\* C5.  Sign invariance.  calculate_hinge_torque(q, area, mean_chord, h)
\* returns the same pair as calculate_hinge_torque(q, area, mean_chord, -h),
\* here for every argument tuple a run passes to it; and two runs that
\* differ only in the sign of the Ch entered for a surface report the same
\* torques for that surface.  (SpecSign)
\* ------------------------------------------------------------------------
C5_SignInvariance ==
    /\ run.pc = "return" =>
          calculate_hinge_torque(run.frame.dynamic_pressure, run.frame.area,
                                 run.frame.mean_chord,
                                 FloatNeg(run.frame.hinge_coeff))
            = <<run.frame.torque_nm, run.frame.torque_kgcm>>
    /\ (Len(run.results) >= focus /\ Len(twin.results) >= focus) =>
          /\ twin.results[focus].torque_nm = run.results[focus].torque_nm
          /\ twin.results[focus].torque_kgcm = run.results[focus].torque_kgcm

C5_Witness ==
    /\ run.pc = "done" /\ twin.pc = "done"
    /\ IsParseable(SurfaceCall(run, focus, 1))
    /\ run.results[focus].ch # twin.results[focus].ch
    /\ twin.results[focus].ch = FloatNeg(run.results[focus].ch)
    /\ Positive(run.results[focus].torque_nm)
    /\ twin.results[focus].torque_nm = run.results[focus].torque_nm

\* ------------------------------------------------------------------------
\* C6.  Whatever is answered (empty, valid or unparseable), the final
\* report lists exactly three surface results, in the order Aileron,
\* Elevator, Rudder, and each listed result carries the name of the surface
\* whose inputs produced it.
\* ------------------------------------------------------------------------
Reports(s) == {i \in 1..Len(s.stdout) : s.stdout[i].ev = "report"}

C6_ReportOrder ==
    \A r \in Reports(run) :
        LET lines == run.stdout[r].lines
        IN  /\ Len(lines) = 3
            /\ \A i \in 1..3 :
                  /\ lines[i].name = SurfaceOrder[i]
                  /\ \A k \in 1..4 :
                        SurfaceCall(run, i, k).prompt_text[1] = lines[i].name
                  /\ lines[i].ch = SurfaceCall(run, i, 1).ret.value

C6_Witness ==
    /\ run.pc = "done"
    /\ Reports(run) # {}
    /\ \E i, j \in 1..Len(run.calls) :
          IsUnparseable(run.calls[i]) /\ IsParseable(run.calls[j])

\* ------------------------------------------------------------------------
\* C7.  The default run (every prompt answered with an empty line).
\* As stated: dynamic_pressure = 198.45, the Aileron has area 0.07392 and
\* mean chord 0.080, torque_nm is 0.17586 to five decimal places and
\* torque_kgcm is 1.7936 to four.  The two torques are not what the formula
\* gives for these inputs.
\* ------------------------------------------------------------------------
DefaultAileronComputed(s) ==
    /\ AllAnswersEmpty(s)
    /\ s.pc = "return"
    /\ s.frame.name = "Aileron"

DefaultRunDone(s) ==
    /\ AllAnswersEmpty(s)
    /\ s.pc = "done"

DefaultGeometry(s) ==
    /\ DefaultAileronComputed(s) =>
          /\ s.dynamic_pressure = Lit(19845, 2)
          /\ s.frame.area = Lit(7392, 5)
          /\ s.frame.mean_chord = Lit(80, 3)
    /\ DefaultRunDone(s) =>
          /\ s.dynamic_pressure = Lit(19845, 2)
          /\ s.results[1].name = "Aileron"

C7_DefaultRunAsStated ==
    /\ DefaultGeometry(run)
    /\ DefaultAileronComputed(run) =>
          /\ FloatFormat(run.frame.torque_nm, 5) = Lit(17586, 5)
          /\ FloatFormat(run.frame.torque_kgcm, 4) = Lit(17936, 4)
    /\ DefaultRunDone(run) =>
          /\ FloatFormat(run.results[1].torque_nm, 5) = Lit(17586, 5)
          /\ FloatFormat(run.results[1].torque_kgcm, 4) = Lit(17936, 4)

\* C7, amended.  In the default run dynamic_pressure = 198.45, the Aileron
\* has area 0.07392 and mean chord 0.080, torque_nm is 0.17603 to five
\* decimal places (0.176033088) and torque_kgcm is 1.7950 to four.
C7_DefaultRun ==
    /\ DefaultGeometry(run)
    /\ DefaultAileronComputed(run) =>
          /\ run.frame.torque_nm = Lit(176033088, 9)
          /\ FloatFormat(run.frame.torque_nm, 5) = Lit(17603, 5)
          /\ FloatFormat(run.frame.torque_kgcm, 4) = Lit(17950, 4)
    /\ DefaultRunDone(run) =>
          /\ FloatFormat(run.results[1].torque_nm, 5) = Lit(17603, 5)
          /\ FloatFormat(run.results[1].torque_kgcm, 4) = Lit(17950, 4)

C7_Witness ==
    /\ DefaultRunDone(run)
    /\ Len(run.calls) = 14
    /\ Len(run.results) = 3

\* ------------------------------------------------------------------------
\* C8.  Every run performs exactly 14 input reads in the fixed order (air
\* density, velocity, then Ch, span, root chord, tip chord of Aileron,
\* Elevator and Rudder); each prompt is issued once whatever the answer;
\* the dynamic pressure is computed after the velocity read and before the
\* first surface read; the report is printed only after the 14th read,
\* after which the run terminates.
\* Stated as claimed; a run whose input ends early stops before its 14th
\* read and prints no report.
\* ------------------------------------------------------------------------
Events(s, ev) == {i \in 1..Len(s.stdout) : s.stdout[i].ev = ev}

\* The prompts shown so far are the first documented ones, in order, once
\* each, and they are the reads made.
ReadsInOrder(s) ==
    LET shown == PromptsShown(s.stdout)
    IN  /\ Cardinality(shown) = Len(s.calls)
        /\ Len(s.calls) <= Len(Documented)
        /\ \A i \in shown :
              s.stdout[i].text
                = Documented[Cardinality({j \in shown : j <= i})].prompt

\* The dynamic pressure is derived once, between the 2nd and the 3rd read.
PressureBetweenReads(s) ==
    /\ Cardinality(Events(s, "dynamic_pressure")) <= 1
    /\ Len(s.calls) >= 3 => Events(s, "dynamic_pressure") # {}
    /\ \A d \in Events(s, "dynamic_pressure") :
          /\ Cardinality({j \in PromptsShown(s.stdout) : j < d}) = 2
          /\ s.calls[2].ret.raised = ""

\* The report is printed once, after the 14th read, and last.
ReportAfterReads(s) ==
    /\ Cardinality(Events(s, "report")) <= 1
    /\ \A r \in Events(s, "report") :
          /\ Cardinality({j \in PromptsShown(s.stdout) : j < r}) = 14
          /\ r = Len(s.stdout)
          /\ s.pc = "done"

C8_FourteenReadsThenReport ==
    /\ ReadsInOrder(run)
    /\ PressureBetweenReads(run)
    /\ ReportAfterReads(run)
    /\ run.pc \in {"done", "raised"} =>
          /\ Len(run.calls) = 14
          /\ Events(run, "report") # {}

\* ------------------------------------------------------------------------
\* C9.  Domain invariant.  As stated: for any sequence of answers, the
\* flight conditions used to derive the dynamic pressure have air_density
\* > 0 and velocity >= 0, every geometry passed to the area, mean-chord and
\* torque computations has span, root_chord and tip_chord > 0, and every
\* reported torque is non-negative.  The program validates nothing: a
\* parseable answer is used as entered.
\* ------------------------------------------------------------------------
DomainHolds(s) ==
    /\ s.dynamic_pressure # Unbound =>
          /\ Positive(s.air_density)
          /\ NonNegative(s.velocity)
    /\ s.pc \in {"compute", "return"} =>
          /\ Positive(s.frame.span)
          /\ Positive(s.frame.root_chord)
          /\ Positive(s.frame.tip_chord)
    /\ s.pc = "return" =>
          /\ NonNegative(s.frame.area)
          /\ NonNegative(s.frame.mean_chord)
    /\ \A i \in 1..Len(s.results) :
          /\ NonNegative(s.results[i].torque_nm)
          /\ NonNegative(s.results[i].torque_kgcm)

C9_DomainAlways == DomainHolds(run)

\* The i-th prompt asks for a hinge coefficient (any sign allowed), for the
\* velocity (>= 0) or for a quantity that must be > 0.
AnswerInDomain(s, i) ==
    LET c == s.calls[i]
        v == ParseFloat(c.outcome.text).value
    IN  IsParseable(c) =>
            IF i = 2 THEN NonNegative(v)
            ELSE IF i > 2 /\ (i - 3) % 4 = 0 THEN TRUE
            ELSE Positive(v)

AnswersInDomain(s) == \A i \in 1..Len(s.calls) : AnswerInDomain(s, i)

\* C9, amended.  In every run in which each answer is empty, unparseable,
\* or a number inside its field's domain (air density, span and chords > 0,
\* velocity >= 0, Ch any), the flight conditions have air_density > 0 and
\* velocity >= 0, every geometry computed on has span, root_chord and
\* tip_chord > 0, and every reported torque is non-negative.
C9_DomainWhenAnswersInDomain == AnswersInDomain(run) => DomainHolds(run)

C9_Witness ==
    /\ run.pc = "done"
    /\ AnswersInDomain(run)
    /\ \E i, j \in 1..Len(run.calls) :
          /\ IsUnparseable(run.calls[i])
          /\ IsParseable(run.calls[j])
          /\ j \in {4, 5, 6}
    /\ Positive(run.results[1].torque_nm)

\* ------------------------------------------------------------------------
\* C10.  Independence of surfaces.  Two runs that give the same answers for
\* air density and velocity and the same four answers for a surface produce
\* the same SurfaceResult for it, whatever is answered for the other two
\* surfaces; and the dynamic pressure derived before the first surface is
\* the value passed to all three process_surface calls and is never
\* modified afterwards.  (SpecOthers: the twin answers the other surfaces
\* with empty lines, so every run agrees on the surface with the one run
\* that depends on the shared answers only, hence any two such runs agree.)
\* ------------------------------------------------------------------------
PressurePassedUnchanged(s) ==
    \A i \in 1..Len(s.q_passed) : s.q_passed[i] = s.dynamic_pressure

C10_SurfacesIndependent ==
    /\ (Len(run.results) >= focus /\ Len(twin.results) >= focus) =>
          run.results[focus] = twin.results[focus]
    /\ PressurePassedUnchanged(run)
    /\ PressurePassedUnchanged(twin)

C10_Witness ==
    /\ run.pc = "done" /\ twin.pc = "done"
    /\ Len(run.q_passed) = 3
    /\ \E j \in 1..3 : j # focus /\ run.results[j] # twin.results[j]
    /\ IsParseable(SurfaceCall(run, focus, 2))
    /\ run.results[focus] = twin.results[focus]

====
